---------------------------- MODULE Spec2Model ----------------------------
(***************************************************************************)
(* Model of src/src/App.tsx: the price-list ingestion of the BlessBean      *)
(* auto-order application (sanitizeText, normalizeCountry, and the upload   *)
(* handler handleExcelUpload with its workbook scan).                       *)
(*                                                                         *)
(* JavaScript strings are sequences of UTF-16 code units (integers); every  *)
(* character used here lies in the Basic Multilingual Plane, so a code unit *)
(* is a code point.  JavaScript values are records [t, s, n]: t is the      *)
(* type tag, s the code units of a string, n the value of a number.         *)
(***************************************************************************)
EXTENDS Integers, Sequences, FiniteSets, TLC

VARIABLES
    txt,             \* SpecText: the string under the text utilities
    pc,              \* position of the running handleExcelUpload continuation
    cur,             \* the File of the running invocation
    wb,              \* the decoded workbook of the running invocation
    si,              \* index (0-based) of the sheet in `for (const sheet of wb.SheetNames)`
    i,               \* outer row index (0-based)
    j,               \* inner row index (0-based)
    nameIdx,         \* column of the name label, -1 when not found
    priceIdx,        \* column of the price label, -1 when not found
    currentCountry,  \* the sticky country of the running walk
    collected,       \* const collected: PriceItem[]
    origin,          \* for each item of collected: the sheet, header row and row it came from
    itemsAll,        \* React state itemsAll
    fileDate,        \* React state fileDate
    step,            \* React state step
    loading,         \* React state loading
    toast,           \* React state toast
    ls,              \* localStorage entry under LS_KEY, as JSON.parse reads it
    ui,              \* the rest of the React state that the event handlers read
    inflight,        \* invocations suspended at `await file.arrayBuffer()`
    started,         \* number of handleExcelUpload invocations so far
    history          \* the order in which invocations ended, with their outcome

vars == <<txt, pc, cur, wb, si, i, j, nameIdx, priceIdx, currentCountry,
          collected, origin, itemsAll, fileDate, step, loading, toast, ls, ui,
          inflight, started, history>>

scanVars == <<pc, cur, wb, si, i, j, nameIdx, priceIdx, currentCountry, collected, origin>>
appVars == <<itemsAll, fileDate, step, loading, toast, ls, ui, inflight, started, history>>

(***************************************************************************)
(* Bounds of the model.                                                    *)
(***************************************************************************)
MaxLen == 3       \* length of the generated input strings of SpecText
MaxRows == 4      \* explicit rows of the sheet of a one-sheet workbook
MaxSheets == 2    \* sheets of a workbook built from the sample sheets
MaxUploads == 2   \* invocations of handleExcelUpload in SpecApp
MaxCopies == 1    \* invocations of copyToClipboard waiting for the clipboard in SpecApp

(***************************************************************************)
(* JavaScript values.                                                      *)
(***************************************************************************)
Str(s) == [t |-> "string", s |-> s, n |-> 0]
Num(n) == [t |-> "number", s |-> <<>>, n |-> n]
NaN == [t |-> "NaN", s |-> <<>>, n |-> 0]
Infinite == [t |-> "Infinity", s |-> <<>>, n |-> 0]
Undefined == [t |-> "undefined", s |-> <<>>, n |-> 0]
\* the value of a property inherited from Object.prototype (a function, or
\* Object.prototype itself for __proto__): an object, never a string
Inherited(key) == [t |-> "object", s |-> key, n |-> 0]

Null == [t |-> "null", s |-> <<>>, n |-> 0]
\* an object without own properties, as {} or JSON.parse("{}") makes: n tells
\* the objects apart (two objects are equal only when they are the same one)
PlainObject(id) == [t |-> "object", s |-> <<>>, n |-> id]
\* the String object that Object(s) makes of a string
Wrapper(s) == [t |-> "wrapper", s |-> s, n |-> 0]

\* ToBoolean
Truthy(v) ==
    CASE v.t = "string" -> v.s # <<>>
      [] v.t = "number" -> v.n # 0
      [] v.t = "object" -> TRUE
      [] v.t = "wrapper" -> TRUE
      [] v.t = "Infinity" -> TRUE
      [] OTHER -> FALSE

RECURSIVE Concat(_)
Concat(ss) == IF ss = <<>> THEN <<>> ELSE Head(ss) \o Concat(Tail(ss))

\* s.includes(sub)
Includes(s, sub) ==
    \E k \in 0..(Len(s) - Len(sub)) : SubSeq(s, k + 1, k + Len(sub)) = sub

(***************************************************************************)
(* sanitizeText, App.tsx lines 24-33.                                      *)
(***************************************************************************)
\* The canonical compositions among the modelled characters:
\* e + U+0301 -> U+00E9, and the Hangul jamo U+1100 + U+1161 -> U+AC00.
Composite(a, b) ==
    CASE a = 101 /\ b = 769 -> 233
      [] a = 4352 /\ b = 4449 -> 44032
      [] OTHER -> 0

\* String.prototype.normalize("NFC") on the modelled characters: a starter
\* and the character right after it are replaced by their composite.  Every
\* other modelled character is its own normal form.
RECURSIVE NFCInto(_, _)
NFCInto(done, rest) ==
    IF rest = <<>> THEN done
    ELSE IF done # <<>> /\ Composite(done[Len(done)], Head(rest)) # 0
         THEN NFCInto(SubSeq(done, 1, Len(done) - 1)
                        \o <<Composite(done[Len(done)], Head(rest))>>, Tail(rest))
         ELSE NFCInto(Append(done, Head(rest)), Tail(rest))

NFC(s) == NFCInto(<<>>, s)

\* the characters the regular expression class \s matches (and trim removes)
WhiteSpace == {9, 10, 11, 12, 13, 32, 160, 5760, 8232, 8233, 8239, 8287, 12288, 65279}
                 \cup (8192..8202)

ZeroWidth == (8203..8205) \cup {65279}

\* .replace(/\u00A0/g, " ")
NbspToSpace(s) == [k \in 1..Len(s) |-> IF s[k] = 160 THEN 32 ELSE s[k]]

\* .replace(/[\r\t]/g, " ")
CrTabToSpace(s) == [k \in 1..Len(s) |-> IF s[k] \in {13, 9} THEN 32 ELSE s[k]]

NotZeroWidth(c) == c \notin ZeroWidth

RECURSIVE DropSpace(_)
DropSpace(s) == IF s # <<>> /\ Head(s) \in WhiteSpace THEN DropSpace(Tail(s)) ELSE s

\* .replace(/\s+/g, " ")
RECURSIVE CollapseSpace(_)
CollapseSpace(s) ==
    IF s = <<>> THEN <<>>
    ELSE IF Head(s) \in WhiteSpace THEN <<32>> \o CollapseSpace(DropSpace(s))
         ELSE <<Head(s)>> \o CollapseSpace(Tail(s))

RECURSIVE DropSpaceEnd(_)
DropSpaceEnd(s) ==
    IF s # <<>> /\ s[Len(s)] \in WhiteSpace THEN DropSpaceEnd(SubSeq(s, 1, Len(s) - 1)) ELSE s

\* .trim()
Trim(s) == DropSpaceEnd(DropSpace(s))

\* normalize("NFC"), NBSP -> space, zero-width removed, CR/TAB -> space,
\* runs of white space -> one space, trim: in this order
sanitizeText(s) ==
    Trim(CollapseSpace(CrTabToSpace(SelectSeq(NbspToSpace(NFC(s)), NotZeroWidth))))

(***************************************************************************)
(* normalizeCountry, App.tsx lines 35-41, and COUNTRY_ISO_MAP, lines 15-21. *)
(***************************************************************************)
COUNTRY_ISO_MAP ==
    <<48652, 46972, 51656>> :> <<66, 82>> @@                       \* \uBE0C\uB77C\uC9C8 : BR
    <<53084, 47212, 48708, 50500>> :> <<67, 79>> @@                \* \uCF5C\uB86C\uBE44\uC544 : CO
    <<50640, 54000, 50724, 54588, 50500>> :> <<69, 84>> @@         \* \uC5D0\uD2F0\uC624\uD53C\uC544 : ET
    <<44284, 53580, 47568, 46972>> :> <<71, 84>> @@                \* \uACFC\uD14C\uB9D0\uB77C : GT
    <<51064, 46020, 45348, 49884, 50500>> :> <<73, 68>> @@         \* \uC778\uB3C4\uB124\uC2DC\uC544 : ID
    <<51064, 46020>> :> <<73, 78>> @@                              \* \uC778\uB3C4 : IN
    <<52992, 45264>> :> <<75, 69>> @@                              \* \uCF00\uB0D0 : KE
    <<50648, 49332, 48148, 46020, 47476>> :> <<83, 86>> @@         \* \uC5D8\uC0B4\uBC14\uB3C4\uB974 : SV
    <<50728, 46160, 46972, 49828>> :> <<72, 78>> @@                \* \uC628\uB450\uB77C\uC2A4 : HN
    <<51088, 47700, 51060, 52852>> :> <<74, 77>> @@                \* \uC790\uBA54\uC774\uCE74 : JM
    <<53444, 51088, 45768, 50500>> :> <<84, 78>> @@                \* \uD0C4\uC790\uB2C8\uC544 : TN
    <<46356, 52852, 54168, 51064>> :> <<91, 46356, 52852, 54168, 51064, 93>> @@  \* \uB514\uCE74\uD398\uC778 : [\uB514\uCE74\uD398\uC778]
    <<48288, 53944, 45224>> :> <<86, 78>> @@                       \* \uBCA0\uD2B8\uB0A8 : VN
    <<53076, 49828, 53440, 47532, 52852>> :> <<67, 82>> @@         \* \uCF54\uC2A4\uD0C0\uB9AC\uCE74 : CR
    <<45768, 52852, 46972, 44284>> :> <<78, 73>> @@                \* \uB2C8\uCE74\uB77C\uACFC : NI
    <<47701, 49884, 53076>> :> <<77, 88>> @@                       \* \uBA55\uC2DC\uCF54 : MX
    <<54168, 47336>> :> <<80, 69>> @@                              \* \uD398\uB8E8 : PE
    <<54028, 54392, 50500, 45684, 44592, 45768>> :> <<80, 71>> @@  \* \uD30C\uD478\uC544\uB274\uAE30\uB2C8 : PG
    <<50696, 47704>> :> <<89, 69>> @@                              \* \uC608\uBA58 : YE
    <<47476, 50756, 45796>> :> <<82, 87>> @@                       \* \uB974\uC644\uB2E4 : RW
    <<50864, 44036, 45796>> :> <<85, 71>> @@                       \* \uC6B0\uAC04\uB2E4 : UG
    <<54028, 45208, 47560>> :> <<80, 65>> @@                       \* \uD30C\uB098\uB9C8 : PA
    <<54616, 50752, 51060>> :> <<85, 83>>                          \* \uD558\uC640\uC774 : US

\* COUNTRY_ISO_MAP is an object literal: besides its own keys, a property
\* read finds the properties of Object.prototype.
ObjectPrototypeKeys ==
    { <<99, 111, 110, 115, 116, 114, 117, 99, 116, 111, 114>>,            \* constructor
      <<116, 111, 83, 116, 114, 105, 110, 103>>,                          \* toString
      <<116, 111, 76, 111, 99, 97, 108, 101, 83, 116, 114, 105, 110, 103>>,  \* toLocaleString
      <<118, 97, 108, 117, 101, 79, 102>>,                                \* valueOf
      <<104, 97, 115, 79, 119, 110, 80, 114, 111, 112, 101, 114, 116, 121>>,  \* hasOwnProperty
      <<105, 115, 80, 114, 111, 116, 111, 116, 121, 112, 101, 79, 102>>,  \* isPrototypeOf
      <<112, 114, 111, 112, 101, 114, 116, 121, 73, 115, 69, 110, 117, 109, 101, 114, 97, 98, 108, 101>>,  \* propertyIsEnumerable
      <<95, 95, 112, 114, 111, 116, 111, 95, 95>>,                        \* __proto__
      <<95, 95, 100, 101, 102, 105, 110, 101, 71, 101, 116, 116, 101, 114, 95, 95>>,  \* __defineGetter__
      <<95, 95, 100, 101, 102, 105, 110, 101, 83, 101, 116, 116, 101, 114, 95, 95>>,  \* __defineSetter__
      <<95, 95, 108, 111, 111, 107, 117, 112, 71, 101, 116, 116, 101, 114, 95, 95>>,  \* __lookupGetter__
      <<95, 95, 108, 111, 111, 107, 117, 112, 83, 101, 116, 116, 101, 114, 95, 95>> } \* __lookupSetter__

\* COUNTRY_ISO_MAP[s]
CountryLookup(s) ==
    IF s \in DOMAIN COUNTRY_ISO_MAP THEN Str(COUNTRY_ISO_MAP[s])
    ELSE IF s \in ObjectPrototypeKeys THEN Inherited(s)
    ELSE Undefined

\* s.split(/\s+/).filter(Boolean)
RECURSIVE TakeWord(_)
TakeWord(s) ==
    IF s = <<>> \/ Head(s) \in WhiteSpace THEN <<>> ELSE <<Head(s)>> \o TakeWord(Tail(s))

RECURSIVE Tokens(_)
Tokens(s) ==
    IF s = <<>> THEN <<>>
    ELSE IF Head(s) \in WhiteSpace THEN Tokens(DropSpace(s))
         ELSE <<TakeWord(s)>> \o Tokens(SubSeq(s, Len(TakeWord(s)) + 1, Len(s)))

\* the letter-spaced repair of line 38
Rejoin(s) ==
    LET tokens == Tokens(s)
    IN  IF Len(tokens) > 1 /\ \A k \in 1..Len(tokens) : Len(tokens[k]) = 1
        THEN Concat(tokens) ELSE s

\* normalizeCountry without the repair of line 38
normalizeCountryNoRejoin(raw) ==
    LET s == sanitizeText(raw)
    IN  IF Truthy(CountryLookup(s)) THEN CountryLookup(s) ELSE Str(s)

\* the value normalizeCountry returns: a string, or the inherited property
\* that line 39 assigns to s
normalizeCountry(raw) ==
    LET s == Rejoin(sanitizeText(raw))
    IN  IF Truthy(CountryLookup(s)) THEN CountryLookup(s) ELSE Str(s)


(***************************************************************************)
(* SpecText: the text utilities applied to bounded input strings.  An      *)
(* input is any string of at most MaxLen modelled characters, a key of     *)
(* COUNTRY_ISO_MAP, a property name of Object.prototype, or a sample cell. *)
(***************************************************************************)
\* space, NBSP, TAB, ZWSP, e, U+0301, U+1100, U+1161, U+C778, U+B3C4
TextAlphabet == {32, 160, 9, 8203, 101, 769, 4352, 4449, 51064, 46020}

StringsUpTo(n) == UNION {[1..k -> TextAlphabet] : k \in 0..n}

SampleTexts ==
    { <<48652, 32, 46972, 32, 51656>>,       \* \uBE0C \uB77C \uC9C8 (a letter-spaced key)
      <<32, 48652, 46972, 51656, 9>>,        \* " \uBE0C\uB77C\uC9C8\t"
      <<66, 32, 82>>,                        \* "B R"
      <<75, 101, 110, 121, 97>>,             \* "Kenya"
      <<101, 8205, 769, 32, 120>> }          \* "e\u200D\u0301 x"

TextInputs == StringsUpTo(MaxLen) \cup DOMAIN COUNTRY_ISO_MAP \cup ObjectPrototypeKeys
                \cup SampleTexts

TextIdle == [op |-> "none", input |-> <<>>, arg |-> <<>>, ret |-> Str(<<>>), calls |-> 0]

TextInit == \E x \in TextInputs :
    txt = [op |-> "none", input |-> x, arg |-> x, ret |-> Str(x), calls |-> 0]

\* sanitizeText(x), and then sanitizeText of what it returned
CallSanitizeText ==
    /\ txt.op \in {"none", "sanitizeText"}
    /\ txt.calls < 2
    /\ txt' = [txt EXCEPT !.op = "sanitizeText", !.arg = txt.ret.s,
                          !.ret = Str(sanitizeText(txt.ret.s)), !.calls = txt.calls + 1]
    /\ UNCHANGED <<pc, cur, wb, si, i, j, nameIdx, priceIdx, currentCountry, collected, origin>>
    /\ UNCHANGED <<itemsAll, fileDate, step, loading, toast, ls, ui, inflight, started, history>>

\* normalizeCountry(x)
CallNormalizeCountry ==
    /\ txt.op = "none"
    /\ txt' = [txt EXCEPT !.op = "normalizeCountry", !.arg = txt.input,
                          !.ret = normalizeCountry(txt.input), !.calls = 1]
    /\ UNCHANGED <<pc, cur, wb, si, i, j, nameIdx, priceIdx, currentCountry, collected, origin>>
    /\ UNCHANGED <<itemsAll, fileDate, step, loading, toast, ls, ui, inflight, started, history>>

(***************************************************************************)
(* The decoded workbook.  A sheet is its name and the rows that            *)
(* XLSX.utils.sheet_to_json(ws, {header: 1, defval: ""}) returns: `rows`    *)
(* followed by `blank` rows of empty cells (a sheet of MAX_ROWS_SAFE rows  *)
(* is its first few rows and a count of blank ones).                       *)
(***************************************************************************)
MAX_ROWS_SAFE == 20000
ALLOWED_SHEETS == {"(1)", "(2)", "(3)", "(4)"}
countryIdx == 1

Empty == Str(<<>>)
BlankRow == <<Empty, Empty, Empty, Empty>>

\* rows.length
RowCount(sheet) == Len(sheet.rows) + sheet.blank

\* rows[k], k counted from 0
RowAt(sheet, k) == IF k < Len(sheet.rows) THEN sheet.rows[k + 1] ELSE BlankRow

\* row[idx], idx counted from 0
CellAt(row, idx) == IF idx + 1 \in DOMAIN row THEN row[idx + 1] ELSE Undefined

\* typeof c === "string" && /(품명|제품명)/.test(c)
IsNameLabel(c) ==
    /\ c.t = "string"
    /\ \/ Includes(c.s, <<54408, 47749>>)
       \/ Includes(c.s, <<51228, 54408, 47749>>)

\* typeof c === "string" && /(단가|가격)/.test(c)
IsPriceLabel(c) ==
    /\ c.t = "string"
    /\ \/ Includes(c.s, <<45800, 44032>>)
       \/ Includes(c.s, <<44032, 44201>>)

\* row.findIndex((c) => typeof c === "string" && /(품명|제품명)/.test(c))
FindNameIndex(row) ==
    IF \E k \in DOMAIN row : IsNameLabel(row[k])
    THEN (CHOOSE k \in DOMAIN row :
              IsNameLabel(row[k]) /\ \A m \in 1..(k - 1) : ~IsNameLabel(row[m])) - 1
    ELSE -1

\* row.findIndex((c) => typeof c === "string" && /(단가|가격)/.test(c))
FindPriceIndex(row) ==
    IF \E k \in DOMAIN row : IsPriceLabel(row[k])
    THEN (CHOOSE k \in DOMAIN row :
              IsPriceLabel(row[k]) /\ \A m \in 1..(k - 1) : ~IsPriceLabel(row[m])) - 1
    ELSE -1

\* row.some((c) => typeof c === "string" && /(품명|제품명)/.test(c))
HasNameLabel(row) == \E k \in DOMAIN row : IsNameLabel(row[k])

RECURSIVE Digits(_)
Digits(n) == IF n < 10 THEN <<48 + n>> ELSE Digits(n \div 10) \o <<48 + (n % 10)>>

\* String(v) of a string or an integer number
JsString(v) ==
    CASE v.t = "string" -> v.s
      [] v.t = "number" -> IF v.n < 0 THEN <<45>> \o Digits(-v.n) ELSE Digits(v.n)
      [] OTHER -> <<117, 110, 100, 101, 102, 105, 110, 101, 100>>   \* "undefined"

\* v ?? ""
OrEmpty(v) == IF v.t = "undefined" THEN Empty ELSE v

IsDigit(c) == c \in 48..57

RECURSIVE DigitsValue(_)
DigitsValue(s) ==
    IF s = <<>> THEN 0 ELSE 10 * DigitsValue(SubSeq(s, 1, Len(s) - 1)) + (s[Len(s)] - 48)

AllDigits(s) == s # <<>> /\ \A k \in 1..Len(s) : IsDigit(s[k])

\* Number(s) of a string without white space: the empty string is 0, a
\* signed run of decimal digits is its value, "Infinity" is infinite, and
\* any other text of the modelled characters (which hold no '.', exponent
\* or radix prefix) is NaN
ToNumber(s) ==
    LET body == IF s # <<>> /\ s[1] \in {43, 45} THEN Tail(s) ELSE s
    IN  IF s = <<>> THEN Num(0)
        ELSE IF body = <<73, 110, 102, 105, 110, 105, 116, 121>> THEN Infinite
        ELSE IF AllDigits(body)
             THEN Num(IF s[1] = 45 THEN -DigitsValue(body) ELSE DigitsValue(body))
             ELSE NaN

\* the characters of /[\s,원₩]/
PriceNoise == WhiteSpace \cup {44, 50896, 8361}
NotPriceNoise(c) == c \notin PriceNoise

\* Number(String(priceRaw).replace(/[\s,원₩]/g, ""))
ParsePrice(priceRaw) == ToNumber(SelectSeq(JsString(priceRaw), NotPriceNoise))

\* Number.isFinite(priceNum) && priceNum > 0
ValidPrice(priceNum) == priceNum.t = "number" /\ priceNum.n > 0

\* lines 173-174 without the typeof test: any cell is normalized as text
NextCountryAnyType(country, item) ==
    LET rawCountry == CellAt(item, countryIdx)
        maybe == normalizeCountry(JsString(OrEmpty(rawCountry)))
    IN  IF Truthy(maybe) THEN maybe ELSE country

\* lines 173-174: the current country after the row's country cell
NextCountry(country, item) ==
    LET rawCountry == CellAt(item, countryIdx)
        maybe == IF rawCountry.t = "string" THEN normalizeCountry(rawCountry.s) ELSE Empty
    IN  IF Truthy(maybe) THEN maybe ELSE country

\* sanitizeText(String(item[nameIdx] ?? ""))
RowName(item, nIdx) == sanitizeText(JsString(OrEmpty(CellAt(item, nIdx))))

\* lines 176-179: the row passes every test and an item is pushed
RowAccepted(country, item, nIdx, pIdx) ==
    /\ RowName(item, nIdx) # <<>>
    /\ Truthy(CellAt(item, pIdx))
    /\ Truthy(country)
    /\ ValidPrice(ParsePrice(CellAt(item, pIdx)))

\* line 180: the pushed item
MakeItem(country, item, nIdx, pIdx, sheet) ==
    [country |-> country, name |-> Str(RowName(item, nIdx)),
     price |-> ParsePrice(CellAt(item, pIdx)), priceGroup |-> sheet]

(***************************************************************************)
(* handleExcelUpload, App.tsx lines 107-206.  The part after               *)
(* `await file.arrayBuffer()` runs to completion on the event loop: pc is  *)
(* "idle" when no continuation runs.  The toast texts are named by their   *)
(* error kind.                                                             *)
(***************************************************************************)
Toast(kind, n) == [kind |-> kind, n |-> n]
NoToast == Toast("", 0)                         \* ""
InvalidFileType == Toast("InvalidFileType", 0)  \* line 118
FileTooLarge == Toast("FileTooLarge", 0)        \* line 125
EmptyWorkbook == Toast("EmptyWorkbook", 0)      \* line 136
TooLarge(n) == Toast("SheetTooLarge", n)        \* line 149, with rows.length
NoValidItemsFound == Toast("NoValidItems", 0)   \* line 188
DecodeFailure == Toast("DecodeFailure", 0)      \* what XLSX.read threw, or line 201
StorageFailure == Toast("StorageFailure", 0)    \* what localStorage.setItem threw
Loaded == Toast("Loaded", 0)                    \* line 198
NothingToCopy == Toast("NothingToCopy", 0)      \* line 230
Copied == Toast("Copied", 0)                    \* lines 233 and 241
Reset == Toast("Reset", 0)                      \* line 252

NoSnapshot == [saved |-> FALSE, savedAt |-> 0, itemsAll |-> <<>>, fileDate |-> <<>>]

\* ONE_MONTH_MS of line 11, in seconds (31 days): the model holds no time
\* finer than a second
ONE_MONTH == 31 * 24 * 60 * 60

\* Date.now(), in seconds: the page was loaded at MountTime, and the clock
\* has advanced by one at every change event of the file input since
MountTime == 2 * ONE_MONTH
Now == MountTime + started

\* the inherited properties that are functions: all but __proto__, which is
\* Object.prototype itself
IsFunction(v) ==
    /\ v.t = "object"
    /\ v.s \in ObjectPrototypeKeys \ {<<95, 95, 112, 114, 111, 116, 111, 95, 95>>}

\* what JSON.parse(JSON.stringify(v)) gives for the value of a property of
\* the k-th item: a function is left out (the property is undefined
\* afterwards), and Object.prototype, which has no own enumerable property,
\* comes back as a new {}
JsonValue(v, k) ==
    IF v.t = "object"
    THEN IF IsFunction(v) THEN Undefined ELSE PlainObject(k)
    ELSE v

\* the k-th PriceItem after JSON.stringify and JSON.parse
JsonItem(item, k) ==
    [country |-> JsonValue(item.country, k), name |-> JsonValue(item.name, k),
     price |-> JsonValue(item.price, k), priceGroup |-> item.priceGroup]

JsonItems(list) == [k \in 1..Len(list) |-> JsonItem(list[k], k)]

\* the current sheet of the for-of loop
Sheet == wb[si + 1]

\* file.name.match(/(20\d{2})(\d{2})/): the places a match starts at
DateAt(name, k) ==
    /\ k + 5 <= Len(name)
    /\ name[k] = 50 /\ name[k + 1] = 48
    /\ \A m \in (k + 2)..(k + 5) : IsDigit(name[m])

\* lines 191-192
FileLabel(name) ==
    IF \E k \in 1..Len(name) : DateAt(name, k)
    THEN LET k == CHOOSE k \in 1..Len(name) :
                      DateAt(name, k) /\ \A m \in 1..(k - 1) : ~DateAt(name, m)
         IN  SubSeq(name, k, k + 3) \o <<45380, 32>> \o SubSeq(name, k + 4, k + 5)
                \o <<50900, 32, 45800, 44032, 54364>>
    ELSE name

\* catch (lines 199-201) and finally (203): the toast, loading off
Throw(t) ==
    /\ toast' = t
    /\ loading' = FALSE
    /\ pc' = "idle"
    /\ history' = Append(history, [id |-> cur.id, kind |-> t.kind])
    /\ UNCHANGED <<txt, cur, wb, si, i, j, nameIdx, priceIdx, currentCountry, collected,
                   origin, itemsAll, fileDate, step, ls, ui, inflight, started>>

\* line 135: the workbook has no sheet
NoSheets ==
    /\ pc = "decoded"
    /\ Len(wb) = 0
    /\ Throw(EmptyWorkbook)

\* line 139
StartScan ==
    /\ pc = "decoded"
    /\ Len(wb) # 0
    /\ pc' = "sheets"
    /\ si' = 0
    /\ collected' = <<>>
    /\ origin' = <<>>
    /\ UNCHANGED <<txt, cur, wb, i, j, nameIdx, priceIdx, currentCountry>>
    /\ UNCHANGED appVars

\* line 143 without the allow-list
AnySheetAllowed(sheet) == sheet.name = sheet.name

\* line 143: a sheet outside the allow-list is skipped
SheetAllowed(sheet) == sheet.name \in ALLOWED_SHEETS

SkipSheet ==
    /\ pc = "sheets"
    /\ si < Len(wb)
    /\ ~SheetAllowed(Sheet)
    /\ si' = si + 1
    /\ UNCHANGED <<txt, pc, cur, wb, i, j, nameIdx, priceIdx, currentCountry, collected, origin>>
    /\ UNCHANGED appVars

\* line 148 with the ceiling off by one
TooManyRowsOffByOne(sheet) == RowCount(sheet) > MAX_ROWS_SAFE + 1

\* line 148
TooManyRows(sheet) == RowCount(sheet) > MAX_ROWS_SAFE

SheetTooLarge ==
    /\ pc = "sheets"
    /\ si < Len(wb)
    /\ SheetAllowed(Sheet)
    /\ TooManyRows(Sheet)
    /\ Throw(TooLarge(RowCount(Sheet)))

\* lines 152-155
EnterSheet ==
    /\ pc = "sheets"
    /\ si < Len(wb)
    /\ SheetAllowed(Sheet)
    /\ ~TooManyRows(Sheet)
    /\ nameIdx' = -1
    /\ priceIdx' = -1
    /\ i' = 0
    /\ pc' = "rows"
    /\ UNCHANGED <<txt, cur, wb, si, j, currentCountry, collected, origin>>
    /\ UNCHANGED appVars

\* the for-of loop ends
SheetsDone ==
    /\ pc = "sheets"
    /\ si = Len(wb)
    /\ pc' = "scanned"
    /\ UNCHANGED <<txt, cur, wb, si, i, j, nameIdx, priceIdx, currentCountry, collected, origin>>
    /\ UNCHANGED appVars

\* the index after k: the iterations over the trailing blank rows change
\* nothing but the index, and are taken in one step
After(sheet, k) == IF k < Len(sheet.rows) THEN k + 1 ELSE RowCount(sheet)

\* line 159 is false: not a header row
NotHeader ==
    /\ pc = "rows"
    /\ i < RowCount(Sheet)
    /\ ~HasNameLabel(RowAt(Sheet, i))
    /\ i' = After(Sheet, i)
    /\ UNCHANGED <<txt, pc, cur, wb, si, j, nameIdx, priceIdx, currentCountry, collected, origin>>
    /\ UNCHANGED appVars

\* line 163: a name label without a price label
IncompleteHeader ==
    /\ pc = "rows"
    /\ i < RowCount(Sheet)
    /\ HasNameLabel(RowAt(Sheet, i))
    /\ FindPriceIndex(RowAt(Sheet, i)) = -1
    /\ nameIdx' = FindNameIndex(RowAt(Sheet, i))
    /\ priceIdx' = -1
    /\ i' = i + 1
    /\ UNCHANGED <<txt, pc, cur, wb, si, j, currentCountry, collected, origin>>
    /\ UNCHANGED appVars

\* line 165 with the country declared outside the header branch
WalkKeepsCountry(country) == country

\* line 165: the country a walk starts with
WalkStartCountry(country) == Empty

\* lines 160-167: a header row starts a walk of the rows below it
HeaderFound ==
    /\ pc = "rows"
    /\ i < RowCount(Sheet)
    /\ HasNameLabel(RowAt(Sheet, i))
    /\ FindPriceIndex(RowAt(Sheet, i)) # -1
    /\ nameIdx' = FindNameIndex(RowAt(Sheet, i))
    /\ priceIdx' = FindPriceIndex(RowAt(Sheet, i))
    /\ currentCountry' = WalkStartCountry(currentCountry)
    /\ j' = i + 1
    /\ pc' = "walk"
    /\ UNCHANGED <<txt, cur, wb, si, i, collected, origin>>
    /\ UNCHANGED appVars

\* lines 168-181: one row of the walk
WalkRow ==
    /\ pc = "walk"
    /\ j < RowCount(Sheet)
    /\ LET item == RowAt(Sheet, j)
           country == NextCountry(currentCountry, item)
       IN  /\ currentCountry' = country
           /\ IF RowAccepted(country, item, nameIdx, priceIdx)
              THEN /\ collected' = Append(collected,
                                          MakeItem(country, item, nameIdx, priceIdx, Sheet.name))
                   /\ origin' = Append(origin, [sheet |-> si, hdr |-> i, row |-> j])
              ELSE UNCHANGED <<collected, origin>>
    /\ j' = After(Sheet, j)
    /\ UNCHANGED <<txt, pc, cur, wb, si, i, nameIdx, priceIdx>>
    /\ UNCHANGED appVars

\* the walk reached the end of the sheet: the outer loop goes on below the header
WalkDone ==
    /\ pc = "walk"
    /\ j = RowCount(Sheet)
    /\ i' = i + 1
    /\ pc' = "rows"
    /\ UNCHANGED <<txt, cur, wb, si, j, nameIdx, priceIdx, currentCountry, collected, origin>>
    /\ UNCHANGED appVars

\* the outer loop reached the end of the sheet
RowsDone ==
    /\ pc = "rows"
    /\ i = RowCount(Sheet)
    /\ si' = si + 1
    /\ pc' = "sheets"
    /\ UNCHANGED <<txt, cur, wb, i, j, nameIdx, priceIdx, currentCountry, collected, origin>>
    /\ UNCHANGED appVars

\* line 187
NoValidItems ==
    /\ pc = "scanned"
    /\ collected = <<>>
    /\ Throw(NoValidItemsFound)

\* lines 191-198, and finally
Commit ==
    /\ pc = "scanned"
    /\ collected # <<>>
    /\ fileDate' = FileLabel(cur.name)
    /\ itemsAll' = collected
    /\ ls' = [saved |-> TRUE, savedAt |-> Now, itemsAll |-> JsonItems(collected),
              fileDate |-> FileLabel(cur.name)]
    /\ step' = 2
    /\ toast' = Loaded
    /\ loading' = FALSE
    /\ pc' = "idle"
    /\ history' = Append(history, [id |-> cur.id, kind |-> Loaded.kind])
    /\ UNCHANGED <<txt, cur, wb, si, i, j, nameIdx, priceIdx, currentCountry, collected,
                   origin, ui, inflight, started>>

\* lines 194-196 when localStorage.setItem throws (the quota is exceeded, or
\* storage is disabled): the two setters before it have run, then catch and finally
StorageFails ==
    /\ pc = "scanned"
    /\ collected # <<>>
    /\ fileDate' = FileLabel(cur.name)
    /\ itemsAll' = collected
    /\ toast' = StorageFailure
    /\ loading' = FALSE
    /\ pc' = "idle"
    /\ history' = Append(history, [id |-> cur.id, kind |-> StorageFailure.kind])
    /\ UNCHANGED <<txt, cur, wb, si, i, j, nameIdx, priceIdx, currentCountry, collected,
                   origin, step, ls, ui, inflight, started>>

Scan ==
    \/ NoSheets \/ StartScan \/ SkipSheet \/ SheetTooLarge \/ EnterSheet \/ SheetsDone
    \/ NotHeader \/ IncompleteHeader \/ HeaderFound \/ WalkRow \/ WalkDone \/ RowsDone
    \/ NoValidItems \/ Commit \/ StorageFails

(***************************************************************************)
(* The workbooks of the model: every one-sheet workbook whose sheet "(1)"  *)
(* has at most MaxRows rows drawn from RowPool, and every workbook of at   *)
(* most MaxSheets sample sheets with distinct names.                       *)
(***************************************************************************)
NameLabel == Str(<<54408, 47749>>)             \* 품명
NameLabel2 == Str(<<51228, 54408, 47749>>)     \* 제품명
PriceLabel == Str(<<45800, 44032>>)            \* 단가
PriceLabel2 == Str(<<44032, 44201>>)           \* 가격
CountryLabel == Str(<<45208, 46972>>)          \* 나라

Header == <<Empty, Empty, NameLabel, PriceLabel>>
HeaderOther == <<NameLabel2, CountryLabel, PriceLabel2, Empty>>
HeaderNoPrice == <<Empty, Empty, NameLabel, Empty>>

\* | 1 | 브라질 | A | 12,000원 |
RowBrazil == <<Num(1), Str(<<48652, 46972, 51656>>), Str(<<65>>),
               Str(<<49, 50, 44, 48, 48, 48, 50896>>)>>
\* | 2 | " 인 도 " | 7 | 5000 |   (numbers in the name and price cells)
RowIndia == <<Num(2), Str(<<32, 51064, 32, 46020, 32>>), Num(7), Num(5000)>>
\* |   |   | B | ₩12000 |
RowNoCountry == <<Empty, Empty, Str(<<66>>), Str(<<8361, 49, 50, 48, 48, 48>>)>>
\* |   | 케냐 |   |   |           (a country and nothing else)
RowCountryOnly == <<Empty, Str(<<52992, 45264>>), Empty, Empty>>
\* |   | 7 | A | abc |                    (a number as country, a price that is no number)
RowBadPrice == <<Empty, Num(7), Str(<<65>>), Str(<<97, 98, 99>>)>>
\* |   | constructor | A | " 12000 " |
RowInherited == <<Empty, Str(<<99, 111, 110, 115, 116, 114, 117, 99, 116, 111, 114>>),
                  Str(<<65>>), Str(<<32, 49, 50, 48, 48, 48, 32>>)>>
\* the prices "0", "-5", 0 and "" under 브라질
RowZeroText == <<Empty, Str(<<48652, 46972, 51656>>), Str(<<65>>), Str(<<48>>)>>
RowNegative == <<Empty, Empty, Str(<<65>>), Str(<<45, 53>>)>>
RowZero == <<Empty, Empty, Str(<<65>>), Num(0)>>
RowNoPrice == <<Empty, Empty, Str(<<65>>), Empty>>

RowPool == {Header, HeaderOther, RowBrazil, RowIndia, RowNoCountry, RowCountryOnly,
            RowBadPrice}

RowsUpTo(n) == UNION {[1..k -> RowPool] : k \in 0..n}

OneSheetWorkbooks ==
    {<<[name |-> "(1)", rows |-> r, blank |-> 0]>> : r \in RowsUpTo(MaxRows)}

SampleBodies ==
    { <<>>,
      <<Header, RowBrazil>>,
      <<HeaderNoPrice, RowBrazil>>,
      <<Header, RowInherited, RowNoCountry>>,
      <<Header, RowZeroText, RowNegative, RowZero, RowNoPrice>> }

\* no blank rows, or as many as make the sheet one row too large; the
\* one-item sheet also with exactly MAX_ROWS_SAFE rows
Tails(body) ==
    {0, MAX_ROWS_SAFE + 1 - Len(body)}
        \cup (IF body = <<Header, RowBrazil>> THEN {MAX_ROWS_SAFE - Len(body)} ELSE {})

SheetNames == {"(1)", "(4)", "Sheet1"}

SampleSheets ==
    UNION {[name : SheetNames, rows : {b}, blank : Tails(b)] : b \in SampleBodies}

DistinctNames(w) == \A a, b \in 1..Len(w) : a # b => w[a].name # w[b].name

SampleWorkbooks ==
    {w \in UNION {[1..k -> SampleSheets] : k \in 0..MaxSheets} : DistinctNames(w)}

Workbooks == OneSheetWorkbooks \cup SampleWorkbooks

\* the React state besides itemsAll, fileDate, step, loading and toast, as
\* far as an event handler reads it: client, priceGroup, selectedCountry, the
\* cart as the set of its entries (their order and quantities are not held),
\* whether message is non-empty, and the number of copyToClipboard
\* invocations that wait for the clipboard; mounted: the effects of the
\* first render have run.  FirstRender is the state of lines 45-55.
FirstRender ==
    [mounted |-> FALSE, client |-> <<>>, priceGroup |-> "", selectedCountry |-> Null,
     cart |-> {}, message |-> FALSE, copies |-> 0]

\* after the effects of the first render: the effect of lines 87-104 has
\* set message, which is never empty (it begins with a greeting)
Mounted == [FirstRender EXCEPT !.mounted = TRUE, !.message = TRUE]

\* price_202405.xlsx
SampleFileName == <<112, 114, 105, 99, 101, 95, 50, 48, 50, 52, 48, 53, 46, 120, 108, 115, 120>>

\* Spec: the synchronous part of one upload in a fresh application, from the
\* point where XLSX.read has returned the workbook (line 133) to the end of
\* the finally block; no other callback runs in between
Init ==
    /\ txt = TextIdle
    /\ pc = "decoded"
    /\ cur = [id |-> 1, name |-> SampleFileName]
    /\ wb \in Workbooks
    /\ si = 0 /\ i = 0 /\ j = 0
    /\ nameIdx = -1 /\ priceIdx = -1
    /\ currentCountry = Empty
    /\ collected = <<>>
    /\ origin = <<>>
    /\ itemsAll = <<>>
    /\ fileDate = <<>>
    /\ step = 1
    /\ loading = TRUE
    /\ toast = NoToast
    /\ ls = NoSnapshot
    /\ ui = Mounted
    /\ inflight = {}
    /\ started = 1
    /\ history = <<>>

Next == Scan

Spec == Init /\ [][Next]_vars

(***************************************************************************)
(* SpecApp: the application, from its first render.  An event or a timer   *)
(* is handled only when no continuation runs (run to completion); nothing  *)
(* keeps a second change event from arriving while an earlier invocation   *)
(* is suspended at `await file.arrayBuffer()`, and the reads finish in any *)
(* order.  Not held: noteType and the quantities of the cart (setNoteType  *)
(* and updateQty write nothing but these and the text of message).         *)
(***************************************************************************)
\* lines 112-116
AllowedTypes == {"application/vnd.openxmlformats-officedocument.spreadsheetml.sheet",
                 "application/vnd.ms-excel", "application/octet-stream"}

\* /\.xlsx?$/.test(file.name)
EndsWith(s, suffix) ==
    Len(s) >= Len(suffix) /\ SubSeq(s, Len(s) - Len(suffix) + 1, Len(s)) = suffix

HasExcelExtension(name) ==
    EndsWith(name, <<46, 120, 108, 115>>) \/ EndsWith(name, <<46, 120, 108, 115, 120>>)

\* line 117
TypeRejected(file) == file.type \notin AllowedTypes /\ ~HasExcelExtension(file.name)

\* line 124
SizeRejected(file) == file.size > 10 * 1024 * 1024

OneItemSheet(nm) == [name |-> nm, rows |-> <<Header, RowBrazil>>, blank |-> 0]

FileData ==
    { [ok |-> FALSE, sheets |-> <<>>],                                  \* XLSX.read throws
      [ok |-> TRUE, sheets |-> <<>>],                                   \* no sheet
      [ok |-> TRUE, sheets |-> <<OneItemSheet("(1)")>>],
      [ok |-> TRUE, sheets |-> <<[name |-> "(4)",
                                  rows |-> <<HeaderNoPrice, HeaderOther, RowIndia>>,
                                  blank |-> 0]>>],
      [ok |-> TRUE, sheets |-> <<[name |-> "(1)", rows |-> <<Header, RowInherited>>,
                                  blank |-> 0]>>],
      [ok |-> TRUE, sheets |-> <<OneItemSheet("Sheet1")>>],             \* no valid item
      [ok |-> TRUE, sheets |-> <<OneItemSheet("(1)"),
                                 [name |-> "(2)", rows |-> <<>>,
                                  blank |-> MAX_ROWS_SAFE + 1]>>] }     \* a sheet too large

ListXls == <<108, 105, 115, 116, 46, 120, 108, 115>>      \* list.xls
MemoTxt == <<109, 101, 109, 111, 46, 116, 120, 116>>      \* memo.txt

\* the files chosen: every content as price_202405.xlsx, and a file each
\* that passes by its extension alone, that is rejected for its type, and
\* that is rejected for its size
Files ==
    [name : {SampleFileName}, type : {"application/vnd.ms-excel"}, size : {2048},
     data : FileData]
    \cup
    [name : {ListXls, MemoTxt}, type : {"text/plain"}, size : {2048},
     data : {[ok |-> TRUE, sheets |-> <<OneItemSheet("(1)")>>]}]
    \cup
    [name : {SampleFileName}, type : {"application/vnd.ms-excel"},
     size : {10 * 1024 * 1024 + 1},
     data : {[ok |-> TRUE, sheets |-> <<OneItemSheet("(1)")>>]}]

\* a snapshot an earlier session has left under LS_KEY, `age` seconds before
\* this page was loaded
EarlierSnapshot(items, age) ==
    [saved |-> TRUE, savedAt |-> MountTime - age, itemsAll |-> JsonItems(items),
     fileDate |-> FileLabel(SampleFileName)]

EarlierItems == <<MakeItem(Str(<<66, 82>>), RowBrazil, 2, 3, "(1)")>>

\* none, one a second less than a month old, and one a month old
Snapshots ==
    {NoSnapshot, EarlierSnapshot(EarlierItems, ONE_MONTH - 1),
     EarlierSnapshot(EarlierItems, ONE_MONTH)}

AppInit ==
    /\ txt = TextIdle
    /\ pc = "idle"
    /\ cur = [id |-> 0, name |-> <<>>]
    /\ wb = <<>>
    /\ si = 0 /\ i = 0 /\ j = 0
    /\ nameIdx = -1 /\ priceIdx = -1
    /\ currentCountry = Empty
    /\ collected = <<>>
    /\ origin = <<>>
    /\ itemsAll = <<>>
    /\ fileDate = <<>>
    /\ step = 1
    /\ loading = FALSE
    /\ toast = NoToast
    /\ ls \in Snapshots
    /\ ui = FirstRender
    /\ inflight = {}
    /\ started = 0
    /\ history = <<>>

\* an event handler or a timer callback can run: the effects of the first
\* render have run, and no continuation of handleExcelUpload is running
Ready == ui.mounted /\ pc = "idle"

\* the effects of the first render: lines 64-76 restore a snapshot that is
\* less than ONE_MONTH_MS old (parsed.itemsAll is an array, which is truthy;
\* parsed.fileDate || ""), and lines 87-104 set message
RestoreCache ==
    /\ ~ui.mounted
    /\ IF ls.saved /\ Now - ls.savedAt < ONE_MONTH
       THEN /\ itemsAll' = ls.itemsAll
            /\ fileDate' = ls.fileDate
            /\ step' = 2
       ELSE UNCHANGED <<itemsAll, fileDate, step>>
    /\ ui' = [ui EXCEPT !.mounted = TRUE, !.message = TRUE]
    /\ UNCHANGED scanVars
    /\ UNCHANGED <<txt, loading, toast, ls, inflight, started, history>>

\* lines 79-84: the timer set when the toast became non-empty fires
ToastTimer ==
    /\ Ready
    /\ toast # NoToast
    /\ toast' = NoToast
    /\ UNCHANGED scanVars
    /\ UNCHANGED <<txt, itemsAll, fileDate, step, loading, ls, ui, inflight, started, history>>

ClientNames == {<<>>, <<75>>}

\* line 275: the client input of step 2 changes; the effect of lines 87-104
\* sets message again
SetClient ==
    /\ Ready
    /\ step = 2
    /\ \E name \in ClientNames \ {ui.client} :
          ui' = [ui EXCEPT !.client = name, !.message = TRUE]
    /\ UNCHANGED scanVars
    /\ UNCHANGED <<txt, itemsAll, fileDate, step, loading, toast, ls, inflight, started, history>>

\* lines 281-287: the button of step 2, disabled while client is empty
NextStep ==
    /\ Ready
    /\ step = 2
    /\ ui.client # <<>>
    /\ step' = 3
    /\ UNCHANGED scanVars
    /\ UNCHANGED <<txt, itemsAll, fileDate, loading, toast, ls, ui, inflight, started, history>>

\* lines 294-305: a price group button of step 3
ChooseGroup ==
    /\ Ready
    /\ step = 3
    /\ \E g \in {"(1)", "(2)", "(3)", "(4)"} : ui' = [ui EXCEPT !.priceGroup = g]
    /\ step' = 4
    /\ UNCHANGED scanVars
    /\ UNCHANGED <<txt, itemsAll, fileDate, loading, toast, ls, inflight, started, history>>

\* lines 209-212
countries ==
    {itemsAll[k].country : k \in {m \in 1..Len(itemsAll) :
                                     itemsAll[m].priceGroup = ui.priceGroup}}

\* lines 214-217
items ==
    {itemsAll[k] : k \in {m \in 1..Len(itemsAll) :
                             /\ itemsAll[m].country = ui.selectedCountry
                             /\ itemsAll[m].priceGroup = ui.priceGroup}}

\* Object(prev): a new {} for null and undefined, a String object for a
\* string, and an object itself
ObjectOf(prev) ==
    CASE prev.t \in {"null", "undefined"} -> PlainObject(0)
      [] prev.t = "string" -> Wrapper(prev.s)
      [] prev.t \in {"object", "wrapper"} -> prev

\* the state after setSelectedCountry(n): the setter of useState calls a
\* function argument as an updater, n(prev), without a receiver.  The
\* function Object gives Object(prev), and Object.prototype.toString gives
\* "[object Undefined]"; the other inherited functions, which throw without
\* a receiver, are the country of no item in the files of SpecApp.
SetStateAction(n, prev) ==
    IF IsFunction(n)
    THEN CASE n.s = <<99, 111, 110, 115, 116, 114, 117, 99, 116, 111, 114>> -> ObjectOf(prev)
           [] n.s = <<116, 111, 83, 116, 114, 105, 110, 103>> ->
                Str(<<91, 111, 98, 106, 101, 99, 116, 32,
                      85, 110, 100, 101, 102, 105, 110, 101, 100, 93>>)
    ELSE n

\* lines 314-324: a country button of step 4
SelectCountry ==
    /\ Ready
    /\ step = 4
    /\ \E n \in countries :
          ui' = [ui EXCEPT !.selectedCountry = SetStateAction(n, ui.selectedCountry)]
    /\ UNCHANGED scanVars
    /\ UNCHANGED <<txt, itemsAll, fileDate, step, loading, toast, ls, inflight, started, history>>

\* the entries of the cart with this name and country
InCart(n, c) == {x \in ui.cart : x.name = n /\ x.country = c}

\* lines 220-221 and 327-337: an item button of step 4, shown when
\* selectedCountry is truthy
AddToCart ==
    /\ Ready
    /\ step = 4
    /\ Truthy(ui.selectedCountry)
    /\ \E it \in items :
          /\ InCart(it.name, it.country) = {}
          /\ ui' = [ui EXCEPT !.cart = ui.cart \cup {[name |-> it.name, country |-> it.country,
                                                     price |-> it.price]},
                              !.message = TRUE]
    /\ UNCHANGED scanVars
    /\ UNCHANGED <<txt, itemsAll, fileDate, step, loading, toast, ls, inflight, started, history>>

\* line 226, from the button of a cart entry (lines 391-393) or of an item of
\* step 4 that is in the cart (lines 338-340)
RemoveFromCart ==
    /\ Ready
    /\ \E x \in ui.cart :
          ui' = [ui EXCEPT !.cart = ui.cart \ InCart(x.name, x.country), !.message = TRUE]
    /\ UNCHANGED scanVars
    /\ UNCHANGED <<txt, itemsAll, fileDate, step, loading, toast, ls, inflight, started, history>>

\* lines 229-231: the copy button, shown while the cart is not empty; with
\* a message the invocation waits for navigator.clipboard.writeText
CopyBegin ==
    /\ Ready
    /\ ui.cart # {}
    /\ IF ~ui.message
       THEN toast' = NothingToCopy /\ UNCHANGED ui
       ELSE /\ ui.copies < MaxCopies
            /\ ui' = [ui EXCEPT !.copies = ui.copies + 1]
            /\ UNCHANGED toast
    /\ UNCHANGED scanVars
    /\ UNCHANGED <<txt, itemsAll, fileDate, step, loading, ls, inflight, started, history>>

\* lines 229-242 where navigator.clipboard is undefined (an insecure
\* context, an older WebView): writeText throws before anything is awaited,
\* and the catch block copies through a textarea and shows the toast at once
CopyFallback ==
    /\ Ready
    /\ ui.cart # {}
    /\ ui.message
    /\ toast' = Copied
    /\ UNCHANGED scanVars
    /\ UNCHANGED <<txt, itemsAll, fileDate, step, loading, ls, ui, inflight, started, history>>

\* lines 232-242: the clipboard took the text, or the fallback copied it
CopyDone ==
    /\ Ready
    /\ ui.copies > 0
    /\ ui' = [ui EXCEPT !.copies = ui.copies - 1]
    /\ toast' = Copied
    /\ UNCHANGED scanVars
    /\ UNCHANGED <<txt, itemsAll, fileDate, step, loading, ls, inflight, started, history>>

\* lines 245-253, the footer button, and the effect of lines 87-104, which
\* runs for the new cart and sets message again
backToClient ==
    /\ Ready
    /\ step' = 2
    /\ ui' = [ui EXCEPT !.client = <<>>, !.cart = {}, !.selectedCountry = Null,
                        !.message = TRUE]
    /\ toast' = Reset
    /\ UNCHANGED scanVars
    /\ UNCHANGED <<txt, itemsAll, fileDate, loading, ls, inflight, started, history>>

\* line 109: the event carries no file
NoFile ==
    /\ Ready
    /\ started < MaxUploads
    /\ started' = started + 1
    /\ UNCHANGED scanVars
    /\ UNCHANGED <<txt, itemsAll, fileDate, step, loading, toast, ls, ui, inflight, history>>

\* an early return with a toast (lines 118-120, 125-127)
Reject(t) ==
    /\ started' = started + 1
    /\ toast' = t
    /\ history' = Append(history, [id |-> started + 1, kind |-> t.kind])
    /\ UNCHANGED scanVars
    /\ UNCHANGED <<txt, itemsAll, fileDate, step, loading, ls, ui, inflight>>

RejectType ==
    /\ Ready
    /\ started < MaxUploads
    /\ \E file \in Files :
        /\ TypeRejected(file)
        /\ Reject(InvalidFileType)

RejectSize ==
    /\ Ready
    /\ started < MaxUploads
    /\ \E file \in Files :
        /\ ~TypeRejected(file)
        /\ SizeRejected(file)
        /\ Reject(FileTooLarge)

\* lines 130-132: loading on, and the invocation waits for the bytes
BeginRead ==
    /\ Ready
    /\ started < MaxUploads
    /\ \E file \in Files :
        /\ ~TypeRejected(file)
        /\ ~SizeRejected(file)
        /\ inflight' = inflight \cup {[id |-> started + 1, file |-> file]}
    /\ started' = started + 1
    /\ loading' = TRUE
    /\ UNCHANGED scanVars
    /\ UNCHANGED <<txt, itemsAll, fileDate, step, toast, ls, ui, history>>

\* line 133 throws: catch and finally
DecodeFails ==
    /\ Ready
    /\ \E inv \in inflight :
        /\ ~inv.file.data.ok
        /\ inflight' = inflight \ {inv}
        /\ history' = Append(history, [id |-> inv.id, kind |-> DecodeFailure.kind])
    /\ toast' = DecodeFailure
    /\ loading' = FALSE
    /\ UNCHANGED scanVars
    /\ UNCHANGED <<txt, itemsAll, fileDate, step, ls, ui, started>>

\* lines 132-133: the bytes arrived and XLSX.read returned the workbook
Decoded ==
    /\ Ready
    /\ \E inv \in inflight :
        /\ inv.file.data.ok
        /\ inflight' = inflight \ {inv}
        /\ cur' = [id |-> inv.id, name |-> inv.file.name]
        /\ wb' = inv.file.data.sheets
    /\ pc' = "decoded"
    /\ UNCHANGED <<txt, si, i, j, nameIdx, priceIdx, currentCountry, collected, origin>>
    /\ UNCHANGED <<itemsAll, fileDate, step, loading, toast, ls, ui, started, history>>

AppNext ==
    \/ RestoreCache \/ ToastTimer \/ SetClient \/ NextStep \/ ChooseGroup \/ SelectCountry
    \/ AddToCart \/ RemoveFromCart \/ CopyBegin \/ CopyFallback \/ CopyDone \/ backToClient
    \/ NoFile \/ RejectType \/ RejectSize \/ BeginRead \/ DecodeFails \/ Decoded
    \/ Scan

SpecApp == AppInit /\ [][AppNext]_vars

(***************************************************************************)
(* SpecText: the text utilities alone.                                     *)
(***************************************************************************)
TextSpecInit ==
    /\ TextInit
    /\ pc = "idle"
    /\ cur = [id |-> 0, name |-> <<>>]
    /\ wb = <<>>
    /\ si = 0 /\ i = 0 /\ j = 0
    /\ nameIdx = -1 /\ priceIdx = -1
    /\ currentCountry = Empty
    /\ collected = <<>>
    /\ origin = <<>>
    /\ itemsAll = <<>>
    /\ fileDate = <<>>
    /\ step = 1
    /\ loading = FALSE
    /\ toast = NoToast
    /\ ls = NoSnapshot
    /\ ui = FirstRender
    /\ inflight = {}
    /\ started = 0
    /\ history = <<>>

TextNext == CallSanitizeText \/ CallNormalizeCountry

SpecText == TextSpecInit /\ [][TextNext]_vars

(***************************************************************************)
(* Properties.  The definitions below state what is claimed of the scan in *)
(* terms of the workbook alone; none of them is used by the actions.       *)
(***************************************************************************)
\* the indices of the rows of a sheet that are written out (a blank row
\* holds no label, no country, no name and no price)
Written(sheet) == 0..(Len(sheet.rows) - 1)

\* row h of the sheet is a valid header: a name label and a price label
ValidHeader(sheet, h) ==
    /\ \E c \in DOMAIN RowAt(sheet, h) : IsNameLabel(RowAt(sheet, h)[c])
    /\ \E c \in DOMAIN RowAt(sheet, h) : IsPriceLabel(RowAt(sheet, h)[c])

\* the row's country cell is a string that normalizes to something non-empty
StatesCountry(row) ==
    /\ Len(row) >= 2
    /\ row[2].t = "string"
    /\ Truthy(normalizeCountry(row[2].s))

\* the written rows k, lo <= k <= hi, that state a country
CountryRows(sheet, lo, hi) ==
    {k \in Written(sheet) : lo <= k /\ k <= hi /\ StatesCountry(RowAt(sheet, k))}

Highest(S) == CHOOSE k \in S : \A m \in S : m <= k

\* the country stated by the nearest row at or above row hi, down to row lo
NearestCountry(sheet, lo, hi) ==
    IF CountryRows(sheet, lo, hi) = {} THEN Empty
    ELSE normalizeCountry(RowAt(sheet, Highest(CountryRows(sheet, lo, hi)))[2].s)

\* row r is a valid data row under the header at row h
ValidUnder(sheet, h, r) ==
    /\ ValidHeader(sheet, h)
    /\ h < r
    /\ LET nameCell == CellAt(RowAt(sheet, r), FindNameIndex(RowAt(sheet, h)))
           priceCell == CellAt(RowAt(sheet, r), FindPriceIndex(RowAt(sheet, h)))
       IN  /\ sanitizeText(JsString(OrEmpty(nameCell))) # <<>>
           /\ Truthy(priceCell)
           /\ CountryRows(sheet, h + 1, r) # {}
           /\ ValidPrice(ParsePrice(priceCell))

\* the valid data rows of the workbook, as <<sheet index, row index>>
ValidRows ==
    {p \in UNION {{<<s, r>> : r \in Written(wb[s + 1])} : s \in 0..(Len(wb) - 1)} :
        /\ wb[p[1] + 1].name \in ALLOWED_SHEETS
        /\ \E h \in Written(wb[p[1] + 1]) : ValidUnder(wb[p[1] + 1], h, p[2])}

Before(a, b) == a.sheet < b.sheet \/ (a.sheet = b.sheet /\ a.row < b.row)

\* C1: when the scan of a workbook has ended, the collected list holds each
\* valid data row exactly once, in sheet order and then row order (also in
\* sheets with more than one valid header), and the scan fails with "no
\* valid items" exactly when there is no valid row.
C1_ExactlyTheValidRows ==
    /\ pc = "scanned" =>
        /\ Len(origin) = Cardinality(ValidRows)
        /\ \A k \in 1..Len(origin) : <<origin[k].sheet, origin[k].row>> \in ValidRows
        /\ \A k \in 1..(Len(origin) - 1) : Before(origin[k], origin[k + 1])
    /\ (pc = "idle" /\ history # <<>>
           /\ history[Len(history)].kind \in {"NoValidItems", "Loaded", "StorageFailure"})
        => (history[Len(history)].kind = "NoValidItems" <=> ValidRows = {})

\* the first valid header of a sheet that has one
FirstHeader(sheet) ==
    CHOOSE h \in Written(sheet) :
        ValidHeader(sheet, h) /\ \A m \in 0..(h - 1) : ~ValidHeader(sheet, m)

\* C2 as claimed: the current country is not reset at a later header of the
\* same sheet: a walk that starts at a second header goes on with the last
\* country established before that header.
C2_CountryCarriesAcrossHeaders ==
    (pc = "walk" /\ FirstHeader(Sheet) < i) =>
        currentCountry = IF CountryRows(Sheet, i + 1, j - 1) # {}
                         THEN NearestCountry(Sheet, i + 1, j - 1)
                         ELSE NearestCountry(Sheet, FirstHeader(Sheet) + 1, i - 1)

\* C2 as it holds: every walk starts with an empty current country: while
\* the walk below the header at row i stands at row j, the current country
\* is the one stated by the nearest row between the header and j, and it is
\* empty when no row below the header has stated one, whatever was
\* established above the header; the walk emits no row before one states a
\* country below its header.
C2_CountryResetAtEachHeader ==
    /\ pc = "walk" => currentCountry = NearestCountry(Sheet, i + 1, j - 1)
    /\ \A k \in 1..Len(origin) :
          CountryRows(wb[origin[k].sheet + 1], origin[k].hdr + 1, origin[k].row) # {}

\* a walk below a second header has passed a product row with an empty
\* country cell without emitting it, though the walk of the first header,
\* which had a country, did emit that row
C2_Witness ==
    /\ pc = "walk"
    /\ FirstHeader(Sheet) < i
    /\ j = i + 2
    /\ currentCountry = Empty
    /\ RowAt(Sheet, i + 1)[2] = Empty
    /\ Truthy(NearestCountry(Sheet, FirstHeader(Sheet) + 1, i - 1))
    /\ \E k \in 1..Len(origin) :
          origin[k] = [sheet |-> si, hdr |-> FirstHeader(Sheet), row |-> i + 1]
    /\ ~\E k \in 1..Len(origin) : origin[k].hdr = i /\ origin[k].sheet = si

\* C3: sticky country: every item emitted from row j by the walk below the
\* header at row h carries normalizeCountry(c), c being the string country
\* cell of the nearest row k, h < k <= j, whose normalized country is not
\* empty; such a row exists for every item, and rows whose country cell is
\* empty or no string do not change the country.
C3_StickyCountry ==
    \A k \in 1..Len(origin) :
        LET sheet == wb[origin[k].sheet + 1]
            stated == {r \in (origin[k].hdr + 1)..(origin[k].row) :
                          StatesCountry(RowAt(sheet, r))}
        IN  /\ stated # {}
            /\ collected[k].country = normalizeCountry(RowAt(sheet, Highest(stated))[2].s)

\* an item was emitted from a row with an empty country cell, two rows below
\* the row that stated 브라질 and right below a row whose country cell is a number
C3_Witness ==
    \E k \in 1..Len(origin) :
        LET sheet == wb[origin[k].sheet + 1]
        IN  /\ origin[k].row = origin[k].hdr + 3
            /\ RowAt(sheet, origin[k].row)[2] = Empty
            /\ RowAt(sheet, origin[k].row - 1)[2].t = "number"
            /\ RowAt(sheet, origin[k].row - 2)[2] = Str(<<48652, 46972, 51656>>)
            /\ collected[k].country = Str(<<66, 82>>)

\* some sheet of the workbook / some allow-listed sheet has too many rows
SomeSheetTooLarge == \E s \in 1..Len(wb) : RowCount(wb[s]) > MAX_ROWS_SAFE
AllowedSheetTooLarge ==
    \E s \in 1..Len(wb) : wb[s].name \in ALLOWED_SHEETS /\ RowCount(wb[s]) > MAX_ROWS_SAFE

\* the upload has ended
Ended == pc = "idle" /\ history # <<>>

\* C6 as claimed: if any sheet of the workbook has more rows than
\* MAX_ROWS_SAFE, the step that ends the upload shows "sheet too large" and
\* puts nothing in effect.
C6_AnySheetTooLargeFails ==
    [][ (pc # "idle" /\ pc' = "idle" /\ SomeSheetTooLarge) =>
            /\ toast'.kind = "SheetTooLarge"
            /\ UNCHANGED <<itemsAll, fileDate, ls, step>> ]_vars

\* C6 as it holds: if any allow-listed sheet has more rows than
\* MAX_ROWS_SAFE, the step that ends the upload shows "sheet too large"
\* (naming the row count of such a sheet, above the ceiling), records that
\* outcome, and leaves itemsAll, fileDate, the snapshot and step as they
\* were, whatever the other sheets, before or after it, hold.
C6_AllowedSheetTooLargeFails ==
    [][ (pc # "idle" /\ pc' = "idle" /\ AllowedSheetTooLarge) =>
            /\ toast'.kind = "SheetTooLarge"
            /\ \E s \in 1..Len(wb) : /\ wb[s].name \in ALLOWED_SHEETS
                                     /\ toast'.n = RowCount(wb[s])
                                     /\ toast'.n > MAX_ROWS_SAFE
            /\ history'[Len(history')].kind = "SheetTooLarge"
            /\ UNCHANGED <<itemsAll, fileDate, ls, step>> ]_vars

\* the scan failed on a sheet too large after the sheet before it had yielded an item
C6_Witness ==
    /\ Ended
    /\ history[Len(history)].kind = "SheetTooLarge"
    /\ toast = TooLarge(MAX_ROWS_SAFE + 1)
    /\ collected # <<>>
    /\ itemsAll = <<>>

\* C7: every collected item carries the name of the sheet its row is in,
\* which is one of the four allow-listed names; a sheet with another name
\* contributes nothing; what is put in effect carries the same tags.
C7_PriceGroupIsSourceSheet ==
    /\ Len(origin) = Len(collected)
    /\ \A k \in 1..Len(collected) :
          /\ collected[k].priceGroup = wb[origin[k].sheet + 1].name
          /\ collected[k].priceGroup \in {"(1)", "(2)", "(3)", "(4)"}
    /\ Len(itemsAll) <= Len(collected)
    /\ \A k \in 1..Len(itemsAll) : itemsAll[k] = collected[k]

\* the items of two sheets have been concatenated and put in effect
C7_Witness ==
    /\ Len(itemsAll) = 2
    /\ itemsAll[1].priceGroup = "(4)"
    /\ itemsAll[2].priceGroup = "(1)"

\* C9: every item pushed is fully valid: a non-empty sanitized name, a
\* non-empty string as country, a finite price > 0 parsed from the price
\* cell, and a price group.
C9_EveryItemValid ==
    \A k \in 1..Len(collected) :
        /\ collected[k].name.t = "string" /\ collected[k].name.s # <<>>
        /\ collected[k].country.t = "string" /\ collected[k].country.s # <<>>
        /\ collected[k].price.t = "number" /\ collected[k].price.n > 0
        /\ collected[k].priceGroup # ""

\* C4: sanitizeText is idempotent: applied to its own result it returns
\* that result.
C4_SanitizeTextIdempotent ==
    (txt.op = "sanitizeText" /\ txt.calls = 2) => txt.ret = Str(txt.arg)

\* a sanitized text of more than one token, every token one character long
LetterSpaced(s) ==
    /\ Len(s) >= 3
    /\ Len(s) % 2 = 1
    /\ \A k \in 1..Len(s) : IF k % 2 = 1 THEN s[k] \notin WhiteSpace ELSE s[k] = 32

NotSpace(c) == c # 32

\* C5 as claimed: table lookup or passthrough: a key of COUNTRY_ISO_MAP
\* gives its code, and every other string s gives sanitizeText(s).
C5_LookupOrPassthrough ==
    txt.op = "normalizeCountry" =>
        IF txt.input \in DOMAIN COUNTRY_ISO_MAP
        THEN txt.ret = Str(COUNTRY_ISO_MAP[txt.input])
        ELSE txt.ret = Str(sanitizeText(txt.input))

\* C5 as it holds: repair, then table lookup or passthrough.  Let w be
\* sanitizeText(s), with its spaces removed when it is letter-spaced.  A
\* key gives its code; when w is a key, s gives the code of w; when w is
\* neither a key nor a property name of Object.prototype, s gives w (which
\* is sanitizeText(s) unless that is letter-spaced); and when w is a
\* property name of Object.prototype, s gives that inherited property, which
\* is no string.
C5_RepairThenLookupOrPassthrough ==
    txt.op = "normalizeCountry" =>
        LET clean == sanitizeText(txt.input)
            w == IF LetterSpaced(clean) THEN SelectSeq(clean, NotSpace) ELSE clean
        IN  /\ txt.input \in DOMAIN COUNTRY_ISO_MAP => txt.ret = Str(COUNTRY_ISO_MAP[txt.input])
            /\ w \in DOMAIN COUNTRY_ISO_MAP => txt.ret = Str(COUNTRY_ISO_MAP[w])
            /\ w \notin (DOMAIN COUNTRY_ISO_MAP \cup ObjectPrototypeKeys) => txt.ret = Str(w)
            /\ w \in ObjectPrototypeKeys => txt.ret = Inherited(w) /\ txt.ret.t # "string"

\* normalizeCountry("인 도") has returned "IN"
C5_Witness ==
    /\ txt.op = "normalizeCountry"
    /\ txt.input = <<51064, 32, 46020>>
    /\ txt.ret = Str(<<73, 78>>)

\* a step of handleExcelUpload: an invocation begins or returns early, its
\* continuation resumes after the await, or the continuation runs on
UploadStep ==
    started' # started \/ inflight' # inflight \/ pc # "idle" \/ history' # history

\* C8: no partial success: an upload that ends in an error leaves itemsAll,
\* fileDate, the snapshot under LS_KEY and step as they were; an upload
\* replaces the four only together, when it has collected items and reports
\* success.
C8_NoPartialSuccess ==
    [][ /\ (Len(history') > Len(history) /\ history'[Len(history')].kind # "Loaded")
            => UNCHANGED <<itemsAll, fileDate, ls, step>>
        /\ (UploadStep /\ <<itemsAll, fileDate, ls, step>>' # <<itemsAll, fileDate, ls, step>>)
            => /\ collected # <<>>
               /\ itemsAll' = collected
               /\ ls'.saved /\ Len(ls'.itemsAll) = Len(collected) /\ ls'.fileDate = fileDate'
               /\ step' = 2
               /\ toast' = Loaded ]_vars

\* C10: one upload at a time: at most one invocation is between
\* setLoading(true) and its finally block, loading is on while an
\* invocation waits for its bytes, and the invocations end in the order
\* they began.
C10_OneUploadAtATime ==
    /\ Cardinality(inflight) + (IF pc = "idle" THEN 0 ELSE 1) <= 1
    /\ inflight # {} => loading
    /\ \A a, b \in 1..Len(history) : a < b => history[a].id < history[b].id
=============================================================================
